---- MODULE Spec2Model ----
(***************************************************************************)
(* A model of asyncio_xmpp/xml.py: the outbound XMPPXMLGenerator (namespace *)
(* prefix bookkeeping and tag rendering) and the inbound XMPPXMLProcessor   *)
(* (stream header state machine).                                           *)
(*                                                                          *)
(* Python values are represented as follows:                                *)
(*   None                      the string None ("None")                     *)
(*   False / a missing attr    the empty tuple Unset (<<>>)                 *)
(*   a present value v         the one-element tuple <<v>> where the field  *)
(*                             may also be missing                          *)
(*   dict                      a function on its key set                    *)
(*   (uri, local) name tuple   <<uri, local>>                               *)
(***************************************************************************)
EXTENDS Integers, Sequences, FiniteSets, TLC

\* ------------------------------------------------------------------ bounds

\* Elements the caller starts in one generator.
MaxElems == 2
\* Events one stanza driver is forwarded before the processor's caller stops
\* sending stanza content.
MaxEvents == 3
\* Objects sent to one write_objects generator.
MaxObjects == 2

\* ------------------------------------------------------------ value helpers

None == "None"
Unset == << >>
XML_NS == "http://www.w3.org/XML/1998/namespace"

EmptyDict == << >>

DictPut(d, k, v) == [x \in (DOMAIN d) \cup {k} |-> IF x = k THEN v ELSE d[x]]

DictUpdate(d, e) ==
    [x \in (DOMAIN d) \cup (DOMAIN e) |-> IF x \in DOMAIN e THEN e[x] ELSE d[x]]

DictDel(d, k) == [x \in (DOMAIN d) \ {k} |-> d[x]]

Values(d) == {d[x] : x \in DOMAIN d}

\* --------------------------------------------------- inputs of the generator

\* (prefix, uri) pairs callers pass to startPrefixMapping, and whose prefixes
\* they pass to endPrefixMapping: a prefixless declaration and one spelled
\* like an automatic prefix.
Decls == {<<None, "u1">>, <<"ns0", "u1">>}

\* Element names callers pass to startElementNS / endElementNS.
ElemNames == {<<None, "a">>, <<"u1", "a">>, <<"u2", "a">>}

\* Attribute dicts callers pass to startElementNS, in insertion order.
AttrDicts == {<< >>}

\* Strings with a colon (":" in s).
HasColon(s) == s \in {"x:y"}

\* xmlValidateNameValue_str: the XML 1.0 Name grammar on the strings in use
\* (a colon is a NameChar, so "x:y" is a Name; "1x" and "" are not).
xmlValidateNameValue_str(s) == s \notin {"1x", ""}

\* "ns{}".format(n)
NsNames == <<"ns0", "ns1", "ns2", "ns3", "ns4", "ns5", "ns6", "ns7", "ns8", "ns9">>
FormatNs(n) == NsNames[n + 1]

\* Python's str ordering on the prefixes in use, for sorted().
SortedPrefixes ==
    <<"1x", "ns0", "ns1", "ns2", "ns3", "ns4", "ns5", "ns6", "ns7", "ns8", "ns9",
      "p", "stream", "x:y", "xml", "xmlns">>

\* xml.sax.saxutils.quoteattr on strings without quotes or markup characters.
quoteattr(s) == "\"" \o s \o "\""

\* ---------------------------------------------------------- generator state

VARIABLES
    ns_map_stack,              \* _ns_map_stack: frames <<map, explicit prefixes, counter>>
    curr_ns_map,               \* _curr_ns_map: uri -> prefix
    pending_start_element,     \* _pending_start_element: Unset or a name
    ns_prefixes_floating_in,   \* _ns_prefixes_floating_in: prefix -> uri
    ns_prefixes_floating_out,  \* _ns_prefixes_floating_out: its elements
    floating_out_is_dict,      \* _ns_prefixes_floating_out is the empty dict of __init__, not a set
    ns_auto_prefixes_floating_in, \* _ns_auto_prefixes_floating_in: set of prefixes
    ns_decls_floating_in,      \* _ns_decls_floating_in: uri -> prefix
    ns_counter,                \* _ns_counter
    short_empty_elements,      \* _short_empty_elements
    out,                       \* the calls the sink received during the last call: written strings and Flush
    lex,                       \* history: where the sink's byte stream stands: "text", "start" (inside a start tag), "end" (inside an end tag) or "bad"
    rolled,                    \* history: the prefixes _roll_prefix returned, ever and since the last pop
    opened,                    \* history: per open element <<name, caller-declared prefixes, active map and counter before its startElementNS>>
    declared,                  \* history: prefixes the caller declared since the last commit
    unclosed,                  \* history: caller-declared prefixes of the last closed element not yet closed
    started,                   \* history: number of elements started so far
    last                       \* history: the last call, its arguments and its outcome

genVars == <<ns_map_stack, curr_ns_map, pending_start_element,
             ns_prefixes_floating_in, ns_prefixes_floating_out,
             floating_out_is_dict, ns_auto_prefixes_floating_in, ns_decls_floating_in, ns_counter,
             short_empty_elements, out, lex, rolled, opened, declared,
             unclosed, started, last>>

\* The processor's fields (XMPPXMLProcessor).
VARIABLES
    state,          \* _state
    depth,          \* _depth: Unset before the first startDocument, else <<n>>
    driver,         \* _driver: Unset before the first startDocument, None, or a SAXDriver
    stanza_parser,  \* _stanza_parser
    remote_version, \* remote_version: Unset until assigned, else <<tuple>>
    remote_to,      \* remote_to, likewise
    remote_from,    \* remote_from, likewise
    remote_id,      \* remote_id, likewise
    plast           \* history: the last callback, its arguments, its outcome and the state it met

procVars == <<state, depth, driver, stanza_parser, remote_version, remote_to,
              remote_from, remote_id, plast>>

\* The write_objects generator (its writer is the generator above).
VARIABLES
    wo_pc,      \* where it stands: "created", "running", "suspended" (at the yield) or "finished"
    wo_nsmap,   \* nsmap_to_use, as (prefix, uri) pairs in dict order
    wo_sent,    \* history: number of objects sent
    wo_run      \* the resumption in progress or last made: its block, the calls still to make, those made, the exception propagating

woVars == <<wo_pc, wo_nsmap, wo_sent, wo_run>>

vars == <<genVars, procVars, woVars>>

Flush == "<flush>"

\* The sink's view of one more chunk of the byte stream.
LexStep(st, b) ==
    CASE b = Flush -> st
      [] b = "<" -> IF st = "text" THEN "start" ELSE "bad"
      [] b = "</" -> IF st = "text" THEN "end" ELSE "bad"
      [] b = ">" -> IF st \in {"start", "end"} THEN "text" ELSE "bad"
      [] b = "/>" -> IF st = "start" THEN "text" ELSE "bad"
      [] OTHER -> st

RECURSIVE LexAll(_, _, _)
LexAll(st, chunks, i) ==
    IF i > Len(chunks) THEN st ELSE LexAll(LexStep(st, chunks[i]), chunks, i + 1)

\* The generator object as one value, threaded through the method bodies.
Gen ==
    [ns_map_stack |-> ns_map_stack,
     curr_ns_map |-> curr_ns_map,
     pending_start_element |-> pending_start_element,
     ns_prefixes_floating_in |-> ns_prefixes_floating_in,
     ns_prefixes_floating_out |-> ns_prefixes_floating_out,
     floating_out_is_dict |-> floating_out_is_dict,
     ns_auto_prefixes_floating_in |-> ns_auto_prefixes_floating_in,
     ns_decls_floating_in |-> ns_decls_floating_in,
     ns_counter |-> ns_counter,
     short_empty_elements |-> short_empty_elements,
     out |-> << >>,
     rolled |-> rolled]

GenBecomes(g) ==
    /\ ns_map_stack' = g.ns_map_stack
    /\ curr_ns_map' = g.curr_ns_map
    /\ pending_start_element' = g.pending_start_element
    /\ ns_prefixes_floating_in' = g.ns_prefixes_floating_in
    /\ ns_prefixes_floating_out' = g.ns_prefixes_floating_out
    /\ floating_out_is_dict' = g.floating_out_is_dict
    /\ ns_auto_prefixes_floating_in' = g.ns_auto_prefixes_floating_in
    /\ ns_decls_floating_in' = g.ns_decls_floating_in
    /\ ns_counter' = g.ns_counter
    /\ short_empty_elements' = g.short_empty_elements
    /\ out' = g.out
    /\ lex' = LexAll(lex, g.out, 1)
    /\ rolled' = g.rolled
    /\ UNCHANGED procVars

\* XMPPXMLGenerator.__init__
GenInitial(short) ==
    [ns_map_stack |-> << <<EmptyDict, {}, 0>> >>,
     curr_ns_map |-> EmptyDict,
     pending_start_element |-> Unset,
     ns_prefixes_floating_in |-> EmptyDict,
     ns_prefixes_floating_out |-> {},
     floating_out_is_dict |-> TRUE,
     ns_auto_prefixes_floating_in |-> {},
     ns_decls_floating_in |-> EmptyDict,
     ns_counter |-> -1,
     short_empty_elements |-> short,
     out |-> << >>,
     rolled |-> [ever |-> {}, again |-> {}, since_pop |-> {}, again_since_pop |-> {}]]

\* self._write(b)
Write(g, b) == [g EXCEPT !.out = Append(@, b)]

Ok(g) == [g |-> g, res |-> "ok", val |-> Unset]
Raise(g, exc) == [g |-> g, res |-> exc, val |-> Unset]
Return(g, v) == [g |-> g, res |-> "ok", val |-> v]

\* -------------------------------------------------------- generator methods

Truthy(x) == x \notin {None, ""}

RECURSIVE RollFrom(_, _)
\* the while loop of _roll_prefix: the first number from n on whose "nsN" is
\* not a pending prefix
RollFrom(n, floating_in) ==
    IF FormatNs(n) \in DOMAIN floating_in THEN RollFrom(n + 1, floating_in) ELSE n

\* prefix_number = self._ns_counter + 1
RollStart(counter) == counter + 1

\* history of _roll_prefix: prefix joins the prefixes returned, and those
\* returned again when it was returned before
Rolled(r, prefix) ==
    [ever |-> r.ever \cup {prefix},
     again |-> IF prefix \in r.ever THEN r.again \cup {prefix} ELSE r.again,
     since_pop |-> r.since_pop \cup {prefix},
     again_since_pop |-> IF prefix \in r.since_pop
                         THEN r.again_since_pop \cup {prefix}
                         ELSE r.again_since_pop]

\* _roll_prefix without line 150: the counter is not advanced
roll_prefix_counter_kept(g) ==
    LET prefix_number == RollFrom(RollStart(g.ns_counter), g.ns_prefixes_floating_in)
        prefix == FormatNs(prefix_number)
    IN  Return([g EXCEPT !.rolled = Rolled(@, prefix)], prefix)

\* XMPPXMLGenerator._roll_prefix
roll_prefix(g) ==
    LET prefix_number == RollFrom(RollStart(g.ns_counter), g.ns_prefixes_floating_in)
        prefix == FormatNs(prefix_number)
    IN  Return([g EXCEPT !.ns_counter = prefix_number,
                         !.rolled = Rolled(@, prefix)],
               prefix)

\* if auto: self._ns_auto_prefixes_floating_in.add(prefix)
AutoAdd(autos, prefix, auto) == IF auto THEN autos \cup {prefix} ELSE autos

\* the prefixes startPrefixMapping refuses outright
InvalidPrefix(prefix) ==
    /\ prefix # None
    /\ \/ prefix = "xml"
       \/ prefix = "xmlns"
       \/ ~xmlValidateNameValue_str(prefix)
       \/ HasColon(prefix)

\* startPrefixMapping without line 249: a pending prefix is declared again
startPrefixMapping_redeclares(g, prefix, uri, auto) ==
    IF InvalidPrefix(prefix) THEN Raise(g, "ValueError")
    ELSE Ok([g EXCEPT
             !.ns_auto_prefixes_floating_in = AutoAdd(@, prefix, auto),
             !.ns_prefixes_floating_in = DictPut(@, prefix, uri),
             !.ns_decls_floating_in = DictPut(@, uri, prefix)])

\* XMPPXMLGenerator.startPrefixMapping
startPrefixMapping(g, prefix, uri, auto) ==
    IF InvalidPrefix(prefix) THEN Raise(g, "ValueError")
    ELSE IF prefix \in DOMAIN g.ns_prefixes_floating_in THEN Raise(g, "ValueError")
    ELSE Ok([g EXCEPT
             !.ns_auto_prefixes_floating_in = AutoAdd(@, prefix, auto),
             !.ns_prefixes_floating_in = DictPut(@, prefix, uri),
             !.ns_decls_floating_in = DictPut(@, uri, prefix)])

\* the lookup of _qname: active map, then pending declarations, then a rolled
\* prefix declared with auto=True
LookupPrefix(g, uri) ==
    IF uri \in DOMAIN g.curr_ns_map THEN Return(g, g.curr_ns_map[uri])
    ELSE IF uri \in DOMAIN g.ns_decls_floating_in
         THEN Return(g, g.ns_decls_floating_in[uri])
    ELSE LET r == roll_prefix(g)
             d == startPrefixMapping(r.g, r.val, uri, TRUE)
         IN  IF d.res = "ok" THEN Return(d.g, r.val) ELSE d

\* the test of _qname for an element without namespace
PrefixlessBoundTest(g) ==
    \/ None \in DOMAIN g.curr_ns_map
    \/ None \in DOMAIN g.ns_prefixes_floating_in

\* XMPPXMLGenerator._qname
qname(g, name, attr) ==
    IF HasColon(name[2]) \/ ~xmlValidateNameValue_str(name[2])
    THEN Raise(g, "ValueError")
    ELSE IF Truthy(name[1])
    THEN IF name[1] = XML_NS THEN Return(g, "xml:" \o name[2])
         ELSE LET r == LookupPrefix(g, name[1])
              IN  IF r.res # "ok" THEN r
                  ELSE IF Truthy(r.val) THEN Return(r.g, r.val \o ":" \o name[2])
                  ELSE Return(r.g, name[2])
    ELSE IF ~attr /\ PrefixlessBoundTest(g) THEN Raise(g, "ValueError")
    ELSE Return(g, name[2])

\* _finish_pending_start_element without the test of line 180
finish_pending_start_element_always(g) ==
    Write([g EXCEPT !.pending_start_element = Unset], ">")

\* XMPPXMLGenerator._finish_pending_start_element
finish_pending_start_element(g) ==
    IF g.pending_start_element = Unset THEN g
    ELSE Write([g EXCEPT !.pending_start_element = Unset], ">")

\* set(new_prefixes) - self._ns_auto_prefixes_floating_in
MustClose(new_prefixes, autos) == (DOMAIN new_prefixes) \ autos

\* _pin_floating_ns_decls that puts self._ns_counter in the frame, not the
\* old_counter startElementNS took before it resolved the names
pin_floating_ns_decls_counter_now(g, old_counter) ==
    IF g.ns_prefixes_floating_out # {} THEN Raise(g, "RuntimeError")
    ELSE LET new_decls == g.ns_decls_floating_in
             new_prefixes == g.ns_prefixes_floating_in
         IN  Return([g EXCEPT
                     !.ns_map_stack = Append(@,
                         <<g.curr_ns_map,
                           MustClose(new_prefixes, g.ns_auto_prefixes_floating_in),
                           g.ns_counter>>),
                     !.curr_ns_map = DictUpdate(@, new_decls),
                     !.ns_decls_floating_in = EmptyDict,
                     !.ns_prefixes_floating_in = EmptyDict],
                    new_prefixes)

\* XMPPXMLGenerator._pin_floating_ns_decls
pin_floating_ns_decls(g, old_counter) ==
    IF g.ns_prefixes_floating_out # {} THEN Raise(g, "RuntimeError")
    ELSE LET new_decls == g.ns_decls_floating_in
             new_prefixes == g.ns_prefixes_floating_in
         IN  Return([g EXCEPT
                     !.ns_map_stack = Append(@,
                         <<g.curr_ns_map,
                           MustClose(new_prefixes, g.ns_auto_prefixes_floating_in),
                           old_counter>>),
                     !.curr_ns_map = DictUpdate(@, new_decls),
                     !.ns_decls_floating_in = EmptyDict,
                     !.ns_prefixes_floating_in = EmptyDict],
                    new_prefixes)

RECURSIVE QNameAttrs(_, _, _, _)
\* the list comprehension of startElementNS: _qname(attrname, attr=True) for
\* each attribute in dict order; val is the list of (qname, value) pairs
QNameAttrs(g, attributes, i, acc) ==
    IF i > Len(attributes) THEN Return(g, acc)
    ELSE LET r == qname(g, attributes[i][1], TRUE)
         IN  IF r.res # "ok" THEN r
             ELSE QNameAttrs(r.g, attributes, i + 1,
                             Append(acc, <<r.val, attributes[i][2]>>))

RECURSIVE WriteDecls(_, _, _)
\* for prefix, uri in sorted(pending_prefixes.items()): write xmlns:prefix="uri"
WriteDecls(g, pending_prefixes, i) ==
    IF i > Len(SortedPrefixes) THEN g
    ELSE LET prefix == SortedPrefixes[i]
         IN  IF prefix \in DOMAIN pending_prefixes
             THEN WriteDecls(
                      Write(Write(Write(Write(g, " xmlns"), ":" \o prefix), "="),
                            quoteattr(pending_prefixes[prefix])),
                      pending_prefixes, i + 1)
             ELSE WriteDecls(g, pending_prefixes, i + 1)

RECURSIVE WriteAttrs(_, _, _)
\* for attrname, value in attrib: write attrname="value"
WriteAttrs(g, attrib, i) ==
    IF i > Len(attrib) THEN g
    ELSE WriteAttrs(
             Write(Write(Write(Write(g, " "), attrib[i][1]), "="),
                   quoteattr(attrib[i][2])),
             attrib, i + 1)

\* the tail of startElementNS: ">" now, or deferred until the next call
CloseStartTag(g, name) ==
    IF g.short_empty_elements THEN [g EXCEPT !.pending_start_element = name]
    ELSE Write(g, ">")

\* if None in pending_prefixes: write xmlns="uri" first
WriteDefaultDecl(g, pending_prefixes) ==
    IF None \in DOMAIN pending_prefixes
    THEN Write(Write(g, " xmlns="), quoteattr(pending_prefixes[None]))
    ELSE g

\* startElementNS from the first self._write on: the tag is rendered
WriteStartTag(p, qn, attrib, name) ==
    IF p.res # "ok" THEN p
    ELSE Ok(CloseStartTag(
             WriteAttrs(
                 WriteDecls(
                     WriteDefaultDecl(Write(Write(p.g, "<"), qn), p.val),
                     DictDel(p.val, None), 1),
                 attrib, 1),
             name))

\* startElementNS after the attribute names are resolved: "xmlns" is refused
\* as an attribute name and the pending declarations are committed
CommitDecls(a, qn, old_counter, name) ==
    IF a.res # "ok" THEN a
    ELSE IF \E i \in DOMAIN a.val : a.val[i][1] = "xmlns"
    THEN Raise(a.g, "ValueError")
    ELSE WriteStartTag(pin_floating_ns_decls(a.g, old_counter), qn, a.val, name)

\* startElementNS after the element's name is resolved
ResolveAttrs(q, old_counter, name, attributes) ==
    IF q.res # "ok" THEN q
    ELSE CommitDecls(QNameAttrs(q.g, attributes, 1, << >>), q.val, old_counter, name)

\* startElementNS after the deferred start tag is finished
StartFinished(g, name, attributes) ==
    ResolveAttrs(qname(g, name, FALSE), g.ns_counter, name, attributes)

\* XMPPXMLGenerator.startElementNS
startElementNS(g, name, attributes) ==
    StartFinished(finish_pending_start_element(g), name, attributes)

\* self._curr_ns_map, self._ns_prefixes_floating_out, self._ns_counter =
\*     self._ns_map_stack.pop()
\* (the frame of __init__, the bottom one, holds an empty dict where the
\* frames of _pin_floating_ns_decls hold a set)
PopFrame(g) ==
    IF Len(g.ns_map_stack) = 0 THEN Raise(g, "IndexError")
    ELSE LET f == g.ns_map_stack[Len(g.ns_map_stack)]
         IN  Ok([g EXCEPT !.ns_map_stack = SubSeq(@, 1, Len(@) - 1),
                          !.curr_ns_map = f[1],
                          !.ns_prefixes_floating_out = f[2],
                          !.floating_out_is_dict = (Len(g.ns_map_stack) = 1),
                          !.ns_counter = f[3],
                          !.rolled = [@ EXCEPT !.since_pop = {},
                                               !.again_since_pop = {}]])

\* XMPPXMLGenerator.endElementNS
endElementNS(g, name) ==
    IF g.ns_prefixes_floating_out # {} THEN Raise(g, "RuntimeError")
    ELSE IF g.pending_start_element = name
    THEN PopFrame(Write([g EXCEPT !.pending_start_element = Unset], "/>"))
    ELSE LET q == qname(Write(g, "</"), name, FALSE)
         IN  IF q.res # "ok" THEN q
             ELSE PopFrame(Write(Write(q.g, q.val), ">"))

\* XMPPXMLGenerator.endPrefixMapping
endPrefixMapping(g, prefix) ==
    IF g.floating_out_is_dict THEN Raise(g, "AttributeError")
    ELSE IF prefix \notin g.ns_prefixes_floating_out THEN Raise(g, "KeyError")
    ELSE Ok([g EXCEPT !.ns_prefixes_floating_out = @ \ {prefix}])

\* flush without line 414: the deferred start tag is not finished
flush_sink_only(g) == Ok(Write(g, Flush))

\* XMPPXMLGenerator.flush
flush(g) == Ok(Write(finish_pending_start_element(g), Flush))

\* Characters of the texts passed to characters(), each with its code point.
Ord ==
    [c \in {"A", "<", ">", "&", "\\t", "\\n", "\\r", "\\x00", "\\x08", "\\x0b",
            "\\x0c", "\\x0e", "\\x1f", "\\x7f"} |->
        CASE c = "A" -> 65 [] c = "<" -> 60 [] c = ">" -> 62 [] c = "&" -> 38
          [] c = "\\t" -> 9 [] c = "\\n" -> 10 [] c = "\\r" -> 13
          [] c = "\\x00" -> 0 [] c = "\\x08" -> 8 [] c = "\\x0b" -> 11
          [] c = "\\x0c" -> 12 [] c = "\\x0e" -> 14 [] c = "\\x1f" -> 31
          [] c = "\\x7f" -> 127]

\* Texts callers pass to characters().
Texts == {<<"A", "<", "&", ">">>, <<"A", "\\x00">>}

\* the test of characters() on one character
IsRestrictedChar(c) ==
    \/ (0 <= Ord[c] /\ Ord[c] <= 8)
    \/ (11 <= Ord[c] /\ Ord[c] <= 12)
    \/ (14 <= Ord[c] /\ Ord[c] <= 31)

\* xml.sax.saxutils.escape on one character
EscapeChar(c) ==
    CASE c = "&" -> "&amp;" [] c = ">" -> "&gt;" [] c = "<" -> "&lt;" [] OTHER -> c

RECURSIVE escape(_)
\* xml.sax.saxutils.escape
escape(chars) ==
    IF chars = << >> THEN "" ELSE EscapeChar(Head(chars)) \o escape(Tail(chars))

\* XMPPXMLGenerator.characters
characters(g0, chars) ==
    LET g == finish_pending_start_element(g0)
    IN  IF \E i \in DOMAIN chars : IsRestrictedChar(chars[i])
        THEN Raise(g, "ValueError")
        ELSE Ok(Write(g, escape(chars)))

\* ------------------------------------------------- the generator's caller

\* A prefixless namespace is bound: committed by an open element, or pending.
PrefixlessBound ==
    \/ None \in Values(curr_ns_map)
    \/ None \in DOMAIN ns_prefixes_floating_in

\* What held when the last call was made.
Pre ==
    [op |-> last.op,
     prefixless |-> PrefixlessBound,
     unclosed |-> unclosed,
     opened |-> opened,
     gen |-> Gen]

Called(op, arg, res) ==
    /\ last' = [op |-> op, arg |-> arg, res |-> res, pre |-> Pre]
    /\ UNCHANGED woVars

GenInitOver(shorts) ==
    /\ \E short \in shorts :
        LET g == GenInitial(short)
        IN  /\ ns_map_stack = g.ns_map_stack
            /\ curr_ns_map = g.curr_ns_map
            /\ pending_start_element = g.pending_start_element
            /\ ns_prefixes_floating_in = g.ns_prefixes_floating_in
            /\ ns_prefixes_floating_out = g.ns_prefixes_floating_out
            /\ floating_out_is_dict = g.floating_out_is_dict
            /\ ns_auto_prefixes_floating_in = g.ns_auto_prefixes_floating_in
            /\ ns_decls_floating_in = g.ns_decls_floating_in
            /\ ns_counter = g.ns_counter
            /\ short_empty_elements = g.short_empty_elements
            /\ out = g.out
            /\ rolled = g.rolled
    /\ lex = "text"
    /\ opened = << >>
    /\ declared = {}
    /\ unclosed = {}
    /\ started = 0
    /\ last = [op |-> "init", arg |-> << >>, res |-> "ok",
               pre |-> [op |-> "init", prefixless |-> FALSE, unclosed |-> {},
                        opened |-> << >>, gen |-> << >>]]

\* An exception leaves the stream undefined: the caller abandons the generator.
InUse == last.res = "ok"

DoStartPrefixMapping(prefix, uri) ==
    /\ InUse
    /\ LET r == startPrefixMapping(Gen, prefix, uri, FALSE)
       IN  /\ GenBecomes(r.g)
           /\ declared' = IF r.res = "ok" THEN declared \cup {prefix} ELSE declared
           /\ UNCHANGED <<opened, unclosed, started>>
           /\ Called("startPrefixMapping", <<prefix, uri>>, r.res)

DoStartElementNS(name, attributes) ==
    /\ InUse
    /\ started < MaxElems
    /\ started' = started + 1
    /\ LET r == startElementNS(Gen, name, attributes)
       IN  /\ GenBecomes(r.g)
           /\ IF r.res = "ok"
              THEN /\ opened' = Append(opened,
                                       <<name, declared, curr_ns_map, ns_counter>>)
                   /\ declared' = {}
                   /\ unclosed' = {}
              ELSE UNCHANGED <<opened, declared, unclosed>>
           /\ Called("startElementNS", <<name, attributes>>, r.res)

DoEndElementNS(name) ==
    /\ InUse
    /\ LET r == endElementNS(Gen, name)
       IN  /\ GenBecomes(r.g)
           /\ IF r.res = "ok"
              THEN IF opened = << >>
                   THEN /\ unclosed' = {}
                        /\ UNCHANGED opened
                   ELSE /\ unclosed' = opened[Len(opened)][2]
                        /\ opened' = SubSeq(opened, 1, Len(opened) - 1)
              ELSE UNCHANGED <<opened, unclosed>>
           /\ UNCHANGED <<declared, started>>
           /\ Called("endElementNS", <<name>>, r.res)

DoEndPrefixMapping(prefix) ==
    /\ InUse
    /\ LET r == endPrefixMapping(Gen, prefix)
       IN  /\ GenBecomes(r.g)
           /\ unclosed' = unclosed \ {prefix}
           /\ UNCHANGED <<opened, declared, started>>
           /\ Called("endPrefixMapping", <<prefix>>, r.res)

DoCharacters(chars) ==
    /\ InUse
    /\ LET r == characters(Gen, chars)
       IN  /\ GenBecomes(r.g)
           /\ UNCHANGED <<opened, declared, unclosed, started>>
           /\ Called("characters", <<chars>>, r.res)

DoFlush ==
    /\ InUse
    /\ LET r == flush(Gen)
       IN  /\ GenBecomes(r.g)
           /\ UNCHANGED <<opened, declared, unclosed, started>>
           /\ Called("flush", << >>, r.res)

GenInit == GenInitOver(BOOLEAN)

\* The caller closes the innermost open element (SAX events are well nested).
Innermost == IF opened = << >> THEN {} ELSE {opened[Len(opened)][1]}

\* One call of a caller that draws its arguments from the given sets.
GenNextOver(decls, names, dicts, texts) ==
    \/ \E d \in decls : DoStartPrefixMapping(d[1], d[2])
    \/ \E name \in names, attributes \in dicts : DoStartElementNS(name, attributes)
    \/ \E name \in Innermost : DoEndElementNS(name)
    \/ \E d \in decls : DoEndPrefixMapping(d[1])
    \/ \E chars \in texts : DoCharacters(chars)
    \/ DoFlush

\* Namespace scoping: declared and automatic prefixes on nested elements.
GenNext == GenNextOver(Decls, ElemNames, AttrDicts, Texts)

\* (prefix, uri) pairs of a caller that also passes the prefixes
\* startPrefixMapping tests for, and the XML namespace under a prefix of its
\* own.
WideDecls ==
    {<<None, "u1">>, <<"p", XML_NS>>, <<"xml", "u1">>, <<"xmlns", "u1">>,
     <<"x:y", "u1">>, <<"1x", "u1">>}

\* Element names of that caller, one of them in the XML namespace.
WideNames == {<<"u1", "a">>, <<XML_NS, "a">>}

\* Texts of that caller: markup characters, the three allowed control
\* characters, and control characters from each range of the test and above.
WideTexts ==
    {<<"A", "<", "&", ">">>, <<"\\t", "\\n", "\\r">>, <<"\\x00">>, <<"A", "\\x08">>,
     <<"\\x0b">>, <<"\\x0c">>, <<"\\x0e">>, <<"\\x1f">>, <<"A", "\\x7f">>}

\* Declarations of every kind on elements in two namespaces.
GenNextDecl ==
    GenNextOver(WideDecls, WideNames, AttrDicts, {<<"A", "<", "&", ">">>})

\* Texts of every kind in elements of one namespace.
GenNextText == GenNextOver({<<None, "u1">>}, {<<"u1", "a">>}, AttrDicts, WideTexts)

\* Attribute dicts with an attribute in the element's namespace, and with one
\* in another namespace beside one without namespace.
WideAttrDicts ==
    {<< <<<<"u1", "k">>, "v">> >>,
     << <<<<"u2", "k">>, "v">>, <<<<None, "j">>, "v">> >>}

\* Elements with attributes, under a prefixless or an automatic declaration.
GenNextAttr ==
    GenNextOver({<<None, "u1">>}, {<<"u1", "a">>}, WideAttrDicts, {<<"A">>})

\* A caller that also calls endElementNS while no element is open.
GenNextStray ==
    \/ GenNextOver({<<None, "u1">>}, {<<"u1", "a">>}, AttrDicts, {<<"A">>})
    \/ (opened = << >> /\ DoEndElementNS(<<"u1", "a">>))

\* ------------------------------------------------------ processor: inputs

\* namespaces.xmlstream and namespaces.streams
NS_XMLSTREAM == "http://etherx.jabber.org/streams"
NS_STREAMS == "urn:ietf:params:xml:ns:xmpp-streams"

\* The envelope element.
STREAM == <<NS_XMLSTREAM, "stream">>

\* Element names the parser reports.
ProcNames == {STREAM, <<"jabber:client", "message">>}

\* version attribute values, as strings of characters.
Versions == {<<"1", ".", "0">>, <<"2", ".", "0">>, <<"1", ".", "x">>}

\* to and from attribute values.
Addresses == {"a@b", "@"}

\* id attribute values.
Ids == {"s1"}

\* The header attribute dicts: each of version, to, from and id present or not.
ATTR_VERSION == <<None, "version">>
ATTR_TO == <<None, "to">>
ATTR_FROM == <<None, "from">>
ATTR_ID == <<None, "id">>

OptionalAttr(key, values) ==
    {EmptyDict} \cup {DictPut(EmptyDict, key, v) : v \in values}

HeaderDictsOver(versions, tos, froms, ids) ==
    {DictUpdate(DictUpdate(v, t), DictUpdate(f, i)) :
        v \in versions, t \in tos, f \in froms, i \in ids}

\* Every version with every presence of from and id; version "1.0" with every
\* to, from and id; a refused version with a malformed to.
HeaderDicts ==
    HeaderDictsOver(OptionalAttr(ATTR_VERSION, Versions),
                    {EmptyDict},
                    OptionalAttr(ATTR_FROM, {"a@b"}),
                    OptionalAttr(ATTR_ID, Ids))
    \cup HeaderDictsOver({DictPut(EmptyDict, ATTR_VERSION, <<"1", ".", "0">>)},
                         OptionalAttr(ATTR_TO, Addresses),
                         OptionalAttr(ATTR_FROM, Addresses),
                         OptionalAttr(ATTR_ID, Ids))
    \cup HeaderDictsOver({DictPut(EmptyDict, ATTR_VERSION, <<"2", ".", "0">>)},
                         {DictPut(EmptyDict, ATTR_TO, "@")},
                         OptionalAttr(ATTR_FROM, {"a@b"}),
                         OptionalAttr(ATTR_ID, Ids))

\* A header that is in order.
GoodHeader ==
    DictPut(DictPut(DictPut(EmptyDict, ATTR_VERSION, <<"1", ".", "0">>),
                    ATTR_FROM, "a@b"), ATTR_ID, "s1")

\* (name, attributes) of the first element of a stream.
Headers == ({STREAM} \X HeaderDicts) \cup {<<<<"jabber:client", "stream">>, GoodHeader>>}

\* Attribute dicts of stanza elements.
StanzaDicts == {EmptyDict}

\* (name, attributes) of the elements of a stanza.
Stanzas == ProcNames \X StanzaDicts

\* Entity names the parser reports to startEntity.
EntityNames == {"amp", "quot", "nbsp"}

\* Values assigned to stanza_parser.
Parsers == {"parser1"}

\* ------------------------------------------------------- processor: state


\* ProcessorState
CLEAN == "CLEAN"
STARTED == "STARTED"
STREAM_HEADER_PROCESSED == "STREAM_HEADER_PROCESSED"
STREAM_FOOTER_PROCESSED == "STREAM_FOOTER_PROCESSED"

\* XMPPXMLProcessor.PREDEFINED_ENTITIES
PREDEFINED_ENTITIES == {"amp", "lt", "gt", "apos", "quot"}

\* The processor object as one value.
Proc ==
    [state |-> state, depth |-> depth, driver |-> driver,
     stanza_parser |-> stanza_parser, remote_version |-> remote_version,
     remote_to |-> remote_to, remote_from |-> remote_from,
     remote_id |-> remote_id]

\* XMPPXMLProcessor.__init__
ProcInitial ==
    [state |-> CLEAN, depth |-> Unset, driver |-> Unset, stanza_parser |-> None,
     remote_version |-> Unset, remote_to |-> Unset, remote_from |-> Unset,
     remote_id |-> Unset]

\* stanza_model.SAXDriver(dest): the events it is given, in order
SAXDriver(dest) == [dest |-> dest, events |-> << >>]

\* self._driver.startElementNS / characters / endElementNS
Forward(x, event) == [x EXCEPT !.driver.events = Append(@, event)]

StreamError(x, condition) == Raise(x, "StreamError:" \o condition)

\* -------------------------------------------------------- processor: methods

\* the stanza_parser setter without its test of the state
set_stanza_parser_any_state(x, value) == Ok([x EXCEPT !.stanza_parser = value])

\* the stanza_parser setter
set_stanza_parser(x, value) ==
    IF x.state # CLEAN THEN Raise(x, "RuntimeError")
    ELSE Ok([x EXCEPT !.stanza_parser = value])

\* XMPPXMLProcessor.comment, startDTD and processingInstruction
restricted(x) == StreamError(x, "restricted-xml")

\* startEntity without its test: every entity is accepted
startEntity_any(x, name) == Ok(x)

\* XMPPXMLProcessor.startEntity
startEntity(x, name) ==
    IF name \notin PREDEFINED_ENTITIES THEN StreamError(x, "restricted-xml")
    ELSE Ok(x)

\* XMPPXMLProcessor.endDTD, startCDATA, endCDATA, endEntity,
\* startPrefixMapping and endPrefixMapping
ignored(x) == Ok(x)

\* XMPPXMLProcessor.startElement and endElement
unsupported(x) == Raise(x, "RuntimeError")

\* XMPPXMLProcessor.characters
pcharacters(x, chars) ==
    IF x.state # STREAM_HEADER_PROCESSED THEN Raise(x, "RuntimeError")
    ELSE Ok(Forward(x, <<"characters", chars>>))

\* startDocument without line 582: the depth is not reset
startDocument_keeps_depth(x) ==
    IF x.state # CLEAN THEN Raise(x, "RuntimeError")
    ELSE Ok([x EXCEPT !.state = STARTED,
                      !.driver = SAXDriver(x.stanza_parser)])

\* XMPPXMLProcessor.startDocument
startDocument(x) ==
    IF x.state # CLEAN THEN Raise(x, "RuntimeError")
    ELSE Ok([x EXCEPT !.state = STARTED,
                      !.depth = <<0>>,
                      !.driver = SAXDriver(x.stanza_parser)])

\* XMPPXMLProcessor.endDocument
endDocument(x) ==
    IF x.state # STREAM_FOOTER_PROCESSED THEN Raise(x, "RuntimeError")
    ELSE Ok([x EXCEPT !.state = CLEAN, !.driver = None])

Digits == <<"0", "1", "2", "3", "4", "5", "6", "7", "8", "9">>
IsDigit(c) == \E d \in DOMAIN Digits : Digits[d] = c
DigitValue(c) == (CHOOSE d \in DOMAIN Digits : Digits[d] = c) - 1

RECURSIVE SplitDots(_, _, _)
\* str.split("."): the pieces between the dots (one more than there are dots)
SplitDots(str, piece, pieces) ==
    IF str = << >> THEN Append(pieces, piece)
    ELSE IF Head(str) = "." THEN SplitDots(Tail(str), << >>, Append(pieces, piece))
    ELSE SplitDots(Tail(str), Append(piece, Head(str)), pieces)

RECURSIVE IntValue(_, _)
IntValue(str, acc) ==
    IF str = << >> THEN acc ELSE IntValue(Tail(str), 10 * acc + DigitValue(Head(str)))

\* int(s) on a string of digits and letters: the number, or ValueError
int(str) ==
    IF str = << >> \/ \E i \in DOMAIN str : ~IsDigit(str[i])
    THEN [res |-> "ValueError", val |-> Unset]
    ELSE [res |-> "ok", val |-> IntValue(str, 0)]

\* tuple(map(int, version.split(".")))
ParseVersion(str) ==
    LET pieces == SplitDots(str, << >>, << >>)
    IN  IF \E i \in DOMAIN pieces : int(pieces[i]).res # "ok"
        THEN [res |-> "ValueError", val |-> Unset]
        ELSE [res |-> "ok", val |-> [i \in DOMAIN pieces |-> int(pieces[i]).val]]

\* attributes.pop(key, default)
Pop(attributes, key, default) ==
    IF key \in DOMAIN attributes THEN attributes[key] ELSE default

\* jid.JID.fromstr: the address parsed, or ValueError when it is no valid address
JIDfromstr(str) ==
    IF str = "a@b"
    THEN [res |-> "ok", val |-> [localpart |-> "a", domain |-> "b", resource |-> None]]
    ELSE [res |-> "ValueError", val |-> Unset]

\* the header's last step without line 657: the envelope is not counted
HeaderId_depth_kept(x, attributes) ==
    IF ATTR_ID \notin DOMAIN attributes THEN StreamError(x, "undefined-condition")
    ELSE Ok([x EXCEPT !.remote_id = <<attributes[ATTR_ID]>>,
                      !.state = STREAM_HEADER_PROCESSED])

\* the header from the id attribute on
HeaderId(x, attributes) ==
    IF ATTR_ID \notin DOMAIN attributes THEN StreamError(x, "undefined-condition")
    ELSE Ok([x EXCEPT !.remote_id = <<attributes[ATTR_ID]>>,
                      !.state = STREAM_HEADER_PROCESSED,
                      !.depth = <<@[1] + 1>>])

\* the header from the from attribute on
HeaderFrom(x, attributes) ==
    IF ATTR_FROM \notin DOMAIN attributes THEN StreamError(x, "undefined-condition")
    ELSE IF JIDfromstr(attributes[ATTR_FROM]).res # "ok"
    THEN Raise(x, JIDfromstr(attributes[ATTR_FROM]).res)
    ELSE HeaderId([x EXCEPT !.remote_from = <<JIDfromstr(attributes[ATTR_FROM]).val>>],
                  attributes)

\* the to attribute assigned only when it is present
HeaderTo_when_present(x, attributes) ==
    IF ATTR_TO \notin DOMAIN attributes
    THEN HeaderFrom(x, attributes)
    ELSE IF JIDfromstr(attributes[ATTR_TO]).res # "ok"
    THEN Raise(x, JIDfromstr(attributes[ATTR_TO]).res)
    ELSE HeaderFrom([x EXCEPT !.remote_to = <<JIDfromstr(attributes[ATTR_TO]).val>>],
                    attributes)

\* the header from the to attribute on
HeaderTo(x, attributes) ==
    IF ATTR_TO \notin DOMAIN attributes
    THEN HeaderFrom([x EXCEPT !.remote_to = <<None>>], attributes)
    ELSE IF JIDfromstr(attributes[ATTR_TO]).res # "ok"
    THEN Raise(x, JIDfromstr(attributes[ATTR_TO]).res)
    ELSE HeaderFrom([x EXCEPT !.remote_to = <<JIDfromstr(attributes[ATTR_TO]).val>>],
                    attributes)

\* the version attribute when it is missing
DEFAULT_VERSION == <<"0", ".", "9">>

\* the version attribute with "1.0" for its default
HeaderVersion_default_1_0(x, attributes) ==
    IF ParseVersion(Pop(attributes, ATTR_VERSION, <<"1", ".", "0">>)).res # "ok"
    THEN StreamError(x, "unsupported-version")
    ELSE IF ParseVersion(Pop(attributes, ATTR_VERSION, <<"1", ".", "0">>)).val # <<1, 0>>
    THEN StreamError(
             [x EXCEPT !.remote_version =
                 <<ParseVersion(Pop(attributes, ATTR_VERSION, <<"1", ".", "0">>)).val>>],
             "unsupported-version")
    ELSE HeaderTo(
             [x EXCEPT !.remote_version =
                 <<ParseVersion(Pop(attributes, ATTR_VERSION, <<"1", ".", "0">>)).val>>],
             attributes)

\* the header from the version attribute on
HeaderVersion(x, attributes) ==
    IF ParseVersion(Pop(attributes, ATTR_VERSION, DEFAULT_VERSION)).res # "ok"
    THEN StreamError(x, "unsupported-version")
    ELSE IF ParseVersion(Pop(attributes, ATTR_VERSION, DEFAULT_VERSION)).val # <<1, 0>>
    THEN StreamError(
             [x EXCEPT !.remote_version =
                 <<ParseVersion(Pop(attributes, ATTR_VERSION, DEFAULT_VERSION)).val>>],
             "unsupported-version")
    ELSE HeaderTo(
             [x EXCEPT !.remote_version =
                 <<ParseVersion(Pop(attributes, ATTR_VERSION, DEFAULT_VERSION)).val>>],
             attributes)

\* startElementNS with the state set before the header is validated
pstartElementNS_state_first(x, name, attributes) ==
    IF x.state = STREAM_HEADER_PROCESSED
    THEN Ok([Forward(x, <<"startElementNS", name, attributes>>)
                EXCEPT !.depth = <<@[1] + 1>>])
    ELSE IF x.state # STARTED THEN Raise(x, "RuntimeError")
    ELSE IF name # STREAM THEN StreamError(x, "invalid-namespace")
    ELSE HeaderVersion([x EXCEPT !.state = STREAM_HEADER_PROCESSED], attributes)

\* XMPPXMLProcessor.startElementNS
pstartElementNS(x, name, attributes) ==
    IF x.state = STREAM_HEADER_PROCESSED
    THEN Ok([Forward(x, <<"startElementNS", name, attributes>>)
                EXCEPT !.depth = <<@[1] + 1>>])
    ELSE IF x.state # STARTED THEN Raise(x, "RuntimeError")
    ELSE IF name # STREAM THEN StreamError(x, "invalid-namespace")
    ELSE HeaderVersion(x, attributes)

\* endElementNS with >= for > in line 662: the envelope's end is forwarded
pendElementNS_forwards_last(x, name) ==
    IF x.state = STREAM_HEADER_PROCESSED
    THEN IF x.depth[1] - 1 >= 0
         THEN Ok(Forward([x EXCEPT !.depth = <<@[1] - 1>>], <<"endElementNS", name>>))
         ELSE Ok([x EXCEPT !.depth = <<@[1] - 1>>,
                           !.state = STREAM_FOOTER_PROCESSED])
    ELSE Raise(x, "RuntimeError")

\* XMPPXMLProcessor.endElementNS
pendElementNS(x, name) ==
    IF x.state = STREAM_HEADER_PROCESSED
    THEN IF x.depth[1] - 1 > 0
         THEN Ok(Forward([x EXCEPT !.depth = <<@[1] - 1>>], <<"endElementNS", name>>))
         ELSE Ok([x EXCEPT !.depth = <<@[1] - 1>>,
                           !.state = STREAM_FOOTER_PROCESSED])
    ELSE Raise(x, "RuntimeError")

\* ------------------------------------------------- the processor's parser

ProcBecomes(x) ==
    /\ state' = x.state
    /\ depth' = x.depth
    /\ driver' = x.driver
    /\ stanza_parser' = x.stanza_parser
    /\ remote_version' = x.remote_version
    /\ remote_to' = x.remote_to
    /\ remote_from' = x.remote_from
    /\ remote_id' = x.remote_id

\* The outcome of the last callback when it was a refused stream header. A
\* refused header can be followed by another callback; any other error ends
\* the parse.
Rejected ==
    IF plast.op = "startElementNS" /\ plast.pre.state = STARTED /\ plast.res # "ok"
    THEN plast.res
    ELSE "none"

Handled(op, arg, r) ==
    /\ plast.res = "ok" \/ Rejected # "none"
    /\ ProcBecomes(r.g)
    /\ plast' = [op |-> op, arg |-> arg, res |-> r.res, pre |-> Proc,
                 rejected |-> Rejected]
    /\ UNCHANGED <<genVars, woVars>>

ProcInit ==
    /\ state = ProcInitial.state
    /\ depth = ProcInitial.depth
    /\ driver = ProcInitial.driver
    /\ stanza_parser = ProcInitial.stanza_parser
    /\ remote_version = ProcInitial.remote_version
    /\ remote_to = ProcInitial.remote_to
    /\ remote_from = ProcInitial.remote_from
    /\ remote_id = ProcInitial.remote_id
    /\ plast = [op |-> "init", arg |-> << >>, res |-> "ok", pre |-> ProcInitial,
                rejected |-> "none"]

\* The stanza driver in use can take another event.
HasRoom ==
    IF state = STREAM_HEADER_PROCESSED THEN Len(driver.events) < MaxEvents ELSE TRUE

OnSetStanzaParser(value) ==
    Handled("stanza_parser", <<value>>, set_stanza_parser(Proc, value))

OnRestricted(op) == Handled(op, << >>, restricted(Proc))

OnStartEntity(name) == Handled("startEntity", <<name>>, startEntity(Proc, name))

OnIgnored(op) == Handled(op, << >>, ignored(Proc))

OnUnsupported(op) == Handled(op, << >>, unsupported(Proc))

OnCharacters(chars) ==
    /\ HasRoom
    /\ Handled("characters", <<chars>>, pcharacters(Proc, chars))

OnStartDocument == Handled("startDocument", << >>, startDocument(Proc))

OnEndDocument == Handled("endDocument", << >>, endDocument(Proc))

OnStartElementNS(name, attributes) ==
    /\ HasRoom
    /\ Handled("startElementNS", <<name, attributes>>,
               pstartElementNS(Proc, name, attributes))

\* An end is always sent: no more ends are forwarded than starts.
OnEndElementNS(name) ==
    /\ Handled("endElementNS", <<name>>, pendElementNS(Proc, name))

ProcNext ==
    \/ \E value \in Parsers : OnSetStanzaParser(value)
    \/ \E op \in {"comment", "startDTD", "processingInstruction"} : OnRestricted(op)
    \/ \E name \in EntityNames : OnStartEntity(name)
    \/ \E op \in {"endDTD", "startPrefixMapping"} : OnIgnored(op)
    \/ \E op \in {"startElement"} : OnUnsupported(op)
    \/ \E chars \in {"text"} : OnCharacters(chars)
    \/ OnStartDocument
    \/ OnEndDocument
    \/ \E e \in IF state = STARTED THEN Headers ELSE Stanzas :
          OnStartElementNS(e[1], e[2])
    \/ \E name \in ProcNames : OnEndElementNS(name)

\* ------------------------------------------------------------ write_objects

\* A stanza element.
MESSAGE == <<"jabber:client", "message">>

\* The nsmap arguments: none, a prefixless namespace, a prefix that is refused.
NsMaps == {<< >>, << <<None, "jabber:client">> >>, << <<"xml", "u1">> >>}

\* The writer calls obj.unparse_to_sax(writer) makes, per object: a stanza with
\* text; one with a prefix declared and closed; a failure before any call; a
\* failure with a child element open; a failure with a declared prefix not
\* yet closed.
Objects ==
    {<< <<"startElementNS", MESSAGE, << >> >>, <<"characters", <<"A">> >>,
        <<"endElementNS", MESSAGE>> >>,
     << <<"startPrefixMapping", "p", "u1">>, <<"startElementNS", <<"u1", "a">>, << >> >>,
        <<"endElementNS", <<"u1", "a">> >>, <<"endPrefixMapping", "p">> >>,
     << <<"raise", "ValueError">> >>,
     << <<"startElementNS", MESSAGE, << >> >>, <<"raise", "ValueError">> >>,
     << <<"startPrefixMapping", "p", "u1">>, <<"startElementNS", <<"u1", "a">>, << >> >>,
        <<"endElementNS", <<"u1", "a">> >>, <<"raise", "ValueError">> >>}

\* One call on the writer.
WriterCall(g, c) ==
    CASE c[1] = "startPrefixMapping" -> startPrefixMapping(g, c[2], c[3], FALSE)
      [] c[1] = "startElementNS" -> startElementNS(g, c[2], c[3])
      [] c[1] = "endElementNS" -> endElementNS(g, c[2])
      [] c[1] = "endPrefixMapping" -> endPrefixMapping(g, c[2])
      [] c[1] = "characters" -> characters(g, c[2])
      [] c[1] = "flush" -> flush(g)
      [] c[1] = "raise" -> Raise(g, c[2])
      [] OTHER -> Ok(g)

\* nsmap_to_use = {"stream": namespaces.xmlstream}; nsmap_to_use.update(nsmap)
NsMapToUse(nsmap) ==
    IF \E i \in DOMAIN nsmap : nsmap[i][1] = "stream"
    THEN [i \in DOMAIN nsmap |-> nsmap[i]]
    ELSE << <<"stream", NS_XMLSTREAM>> >> \o nsmap

\* the calls of write_objects up to the first yield
WoHeaderCalls(nsmap) ==
    << <<"startDocument">> >>
    \o [i \in DOMAIN nsmap |-> <<"startPrefixMapping", nsmap[i][1], nsmap[i][2]>>]
    \o << <<"startElementNS", STREAM, << >> >>, <<"flush">> >>

\* the calls of the loop body for one object
WoBodyCalls(obj) == obj \o << <<"flush">> >>

\* the finally block without the test of abort
WoFinallyCalls_closes_always(nsmap, abort) ==
    << <<"endElementNS", STREAM>> >>
    \o [i \in DOMAIN nsmap |-> <<"endPrefixMapping", nsmap[i][1]>>]
    \o << <<"endDocument">>, <<"flush">> >>

\* the calls of the finally block: the close sequence unless aborted, and the
\* last flush
WoFinallyCalls(nsmap, abort) ==
    (IF abort THEN << >>
     ELSE << <<"endElementNS", STREAM>> >>
          \o [i \in DOMAIN nsmap |-> <<"endPrefixMapping", nsmap[i][1]>>]
          \o << <<"endDocument">> >>)
    \o << <<"flush">> >>

\* A resumption at its start: the block it runs ("header" before the try,
\* "try", or "finally"), the calls still to make, the exception propagating.
WoResumed(op, block, todo, exc) ==
    [op |-> op, block |-> block, todo |-> todo, exc |-> exc,
     calls |-> << >>, sink |-> << >>]

WoInitOver(nsmaps) ==
    /\ wo_pc = "created"
    /\ wo_nsmap \in {NsMapToUse(n) : n \in nsmaps}
    /\ wo_sent = 0
    /\ wo_run = WoResumed("init", "header", << >>, "ok")

WoWriterKept ==
    UNCHANGED <<genVars, procVars, wo_nsmap>>

\* next(gen): the generator starts
WoStart ==
    /\ wo_pc = "created"
    /\ wo_pc' = "running"
    /\ wo_run' = WoResumed("next", "header", WoHeaderCalls(wo_nsmap), "ok")
    /\ UNCHANGED wo_sent
    /\ WoWriterKept

\* gen.send(obj): the yield returns obj
WoSend(obj) ==
    /\ wo_pc = "suspended"
    /\ wo_sent < MaxObjects
    /\ wo_sent' = wo_sent + 1
    /\ wo_pc' = "running"
    /\ wo_run' = WoResumed("send", "try", WoBodyCalls(obj), "ok")
    /\ WoWriterKept

\* gen.throw(AbortStream()): abort = True; return
WoAbort ==
    /\ wo_pc = "suspended"
    /\ wo_pc' = "running"
    /\ wo_run' = WoResumed("abort", "finally", WoFinallyCalls(wo_nsmap, TRUE), "ok")
    /\ UNCHANGED wo_sent
    /\ WoWriterKept

\* gen.close(): the yield raises GeneratorExit
WoClose ==
    /\ wo_pc = "suspended"
    /\ wo_pc' = "running"
    /\ wo_run' = WoResumed("close", "finally", WoFinallyCalls(wo_nsmap, FALSE),
                           "GeneratorExit")
    /\ UNCHANGED wo_sent
    /\ WoWriterKept

\* The resumption after a call that returned: the next call, or the yield, or
\* the end of the finally block, where the exception propagating leaves it.
WoReturned(run, call) ==
    [run EXCEPT !.todo = Tail(@), !.calls = Append(@, <<call[1], "ok">>)]

\* The resumption after a call that raised: in the try block the finally block
\* is entered; before the try and in the finally block the exception leaves
\* the generator, in place of the one that was propagating.
WoRaised(run, call, exc, nsmap) ==
    [run EXCEPT !.calls = Append(@, <<call[1], exc>>),
                !.exc = exc,
                !.todo = IF run.block = "try" THEN WoFinallyCalls(nsmap, FALSE)
                         ELSE << >>,
                !.block = IF run.block = "try" THEN "finally" ELSE "left"]

\* Where the generator stands with nothing left to do in its block.
WoPcAfter(run) ==
    IF run.todo # << >> THEN "running"
    ELSE IF run.block \in {"header", "try"} THEN "suspended"
    ELSE "finished"

\* One writer call of the running generator.
WoStep ==
    /\ wo_pc = "running"
    /\ wo_run.todo # << >>
    /\ \E r \in {WriterCall(Gen, Head(wo_run.todo))} :
        /\ GenBecomes(r.g)
        /\ \E run \in {IF r.res = "ok" THEN WoReturned(wo_run, Head(wo_run.todo))
                       ELSE WoRaised(wo_run, Head(wo_run.todo), r.res, wo_nsmap)} :
            /\ wo_run' = [run EXCEPT !.sink = @ \o r.g.out]
            /\ wo_pc' = WoPcAfter(run)
    /\ UNCHANGED <<wo_nsmap, wo_sent, opened, declared, unclosed, started, last>>

WoNext ==
    \/ WoStart
    \/ \E obj \in Objects : WoSend(obj)
    \/ WoAbort
    \/ WoClose
    \/ WoStep

\* ---------------------------------------------------------- specifications

\* The generator under a caller; the processor is not driven.
Init == GenInit /\ ProcInit /\ WoInitOver({<< >>})
Next == GenNext
Spec == Init /\ [][Next]_vars

\* The generator under a caller that passes prefixes of every kind.
InitDecl == GenInitOver({FALSE}) /\ ProcInit /\ WoInitOver({<< >>})
SpecDecl == InitDecl /\ [][GenNextDecl]_vars

\* The generator under a caller that closes more elements than it opened.
SpecStray == Init /\ [][GenNextStray]_vars

\* The generator under a caller that writes attributes.
SpecAttr == Init /\ [][GenNextAttr]_vars

\* The generator under a caller that passes texts of every kind.
SpecText == Init /\ [][GenNextText]_vars

\* The processor under a parser; the generator is not driven.
InitProc == GenInitOver({TRUE}) /\ ProcInit /\ WoInitOver({<< >>})
SpecProc == InitProc /\ [][ProcNext]_vars

\* write_objects under its caller, writing through a generator of its own.
InitWo == GenInitOver({TRUE}) /\ ProcInit /\ WoInitOver(NsMaps)
SpecWo == InitWo /\ [][WoNext]_vars

\* ------------------------------------------------- properties: the generator

\* C1 as stated: no prefix is ever returned twice by _roll_prefix in the
\* lifetime of one generator, also after elements have been closed.
C1_NeverReissued == rolled.again = {}

\* C1, amended: the prefixes _roll_prefix returns with no endElementNS between
\* them are pairwise distinct (endElementNS restores the counter, so a prefix
\* of a closed element is returned again).
C1_DistinctUntilClose == rolled.again_since_pop = {}

\* Two automatic prefixes were allocated with no element closed in between.
C1_TwoAllocated == Cardinality(rolled.since_pop) >= 2

\* C2: startElementNS of a name without namespace URI fails with ValueError
\* whenever a prefixless namespace is bound, be the binding pending or
\* committed by an enclosing open element.
C2_UnnamespacedRefused ==
    (/\ last.op = "startElementNS"
     /\ ~Truthy(last.arg[1][1])
     /\ last.pre.prefixless)
    => last.res = "ValueError"

\* C3: the active map never maps two different namespace URIs to the same
\* prefix.
C3_ActivePrefixesDistinct ==
    \A u, v \in DOMAIN curr_ns_map :
        u # v => curr_ns_map[u] # curr_ns_map[v]

\* C4: when prefixes the caller declared for the element closed last are still
\* unclosed, the next startElementNS or endElementNS does not succeed (it
\* fails with RuntimeError unless the name is refused first); when none is
\* unclosed it does not fail with RuntimeError.
C4_UnclosedPrefixRefused ==
    last.op \in {"startElementNS", "endElementNS"}
    => /\ last.pre.unclosed # {} => last.res \in {"RuntimeError", "ValueError"}
       /\ last.res = "RuntimeError" => last.pre.unclosed # {}

\* The closing tag in full: "</", the qualified name, ">".
FullEndTag == Len(out) = 3 /\ out[1] = "</" /\ out[3] = ">"

\* C5: with short empty elements, endElementNS right after its startElementNS
\* writes "/>" and nothing else; flush or characters right after a
\* startElementNS first write ">", and the endElementNS after them writes the
\* closing tag in full; the sink never sees a tag delimiter out of place, and
\* a start tag is unterminated exactly while it is the deferred one.
C5_ShortEmptyElements ==
    /\ (/\ short_empty_elements
        /\ last.op = "endElementNS"
        /\ last.res = "ok"
        /\ last.pre.op = "startElementNS")
       => out = <<"/>">>
    /\ (/\ short_empty_elements
        /\ last.op \in {"flush", "characters"}
        /\ last.pre.op = "startElementNS")
       => (Len(out) >= 1 /\ out[1] = ">" /\ pending_start_element = Unset)
    /\ (/\ last.op = "endElementNS"
        /\ last.res = "ok"
        /\ last.pre.op \in {"flush", "characters"})
       => FullEndTag
    /\ lex # "bad"
    /\ last.res = "ok" => (lex = "start" <=> pending_start_element # Unset)
    /\ last.res = "ok" => lex \in {"text", "start"}
    /\ ~short_empty_elements => pending_start_element = Unset

\* An element was started and ended at once and rendered as "/>".
C5_SelfClosed ==
    /\ short_empty_elements
    /\ last.op = "endElementNS"
    /\ last.res = "ok"
    /\ last.pre.op = "startElementNS"
    /\ out = <<"/>">>

\* The fields a refused call must leave alone: pending declarations (both
\* directions), active map, must-be-closed set, counter and frames.
Scoping(g) ==
    <<g.ns_prefixes_floating_in, g.ns_decls_floating_in,
      g.ns_auto_prefixes_floating_in, g.curr_ns_map,
      g.ns_prefixes_floating_out, g.ns_counter, g.ns_map_stack>>

\* The prefixes the contract names as invalid.
NamedInvalid(prefix) ==
    \/ prefix \in {"xml", "xmlns"}
    \/ HasColon(prefix)
    \/ ~xmlValidateNameValue_str(prefix)

\* C16: startPrefixMapping fails when the prefix is already pending for the
\* next element, is "xml" or "xmlns", contains a colon or is not an XML Name;
\* the absent prefix is refused only when it is already pending; and a call
\* that failed left pending declarations, active map, must-be-closed set and
\* counter as they were.
C16_RefusedDeclKeepsState ==
    last.op = "startPrefixMapping" =>
        LET prefix == last.arg[1]
            pending == DOMAIN last.pre.gen.ns_prefixes_floating_in
        IN  /\ (prefix \in pending) => last.res = "ValueError"
            /\ (prefix # None /\ NamedInvalid(prefix)) => last.res = "ValueError"
            /\ (prefix = None /\ last.res # "ok") => None \in pending
            /\ last.res # "ok" => Scoping(Gen) = Scoping(last.pre.gen)

\* C16 happens: inside an open element with a declaration committed, a prefix
\* pending for the next element was declared again and refused.
C16_DuplicateRefused ==
    /\ last.op = "startPrefixMapping"
    /\ last.res = "ValueError"
    /\ last.arg[1] = "p"
    /\ "p" \in DOMAIN last.pre.gen.ns_prefixes_floating_in
    /\ opened # << >>
    /\ curr_ns_map # EmptyDict

\* C17: at most one declaration per namespace URI is pending: the pending
\* prefix-to-URI bindings and the pending URI-to-prefix bindings are inverse
\* of each other in every state.
C17_PendingInverse ==
    /\ \A prefix \in DOMAIN ns_prefixes_floating_in :
           /\ ns_prefixes_floating_in[prefix] \in DOMAIN ns_decls_floating_in
           /\ ns_decls_floating_in[ns_prefixes_floating_in[prefix]] = prefix
    /\ \A uri \in DOMAIN ns_decls_floating_in :
           /\ ns_decls_floating_in[uri] \in DOMAIN ns_prefixes_floating_in
           /\ ns_prefixes_floating_in[ns_decls_floating_in[uri]] = uri

\* C18: the XML namespace is bound to no prefix but "xml": a startPrefixMapping
\* that assigns it to a prefix is not accepted, it is neither pending nor in
\* the active map, and no xmlns declaration for it is written.
C18_XmlNamespaceReserved ==
    /\ (last.op = "startPrefixMapping" /\ last.arg[2] = XML_NS) => last.res # "ok"
    /\ XML_NS \notin DOMAIN ns_decls_floating_in
    /\ XML_NS \notin DOMAIN curr_ns_map
    /\ \A i \in DOMAIN out : out[i] # quoteattr(XML_NS)

\* The ASCII control characters other than tab, line feed and carriage return.
ControlChar(c) == Ord[c] \in ((0 .. 31) \ {9, 10, 13}) \cup {127}

\* C19: characters(text) fails with ValueError if and only if the text holds
\* an ASCII control character other than tab, line feed and carriage return
\* (0-31 except 9, 10 and 13, and 127); any other text is written with <, >
\* and & escaped.
C19_ControlCharsRefused ==
    last.op = "characters" =>
        LET chars == last.arg[1]
        IN  IF \E i \in DOMAIN chars : ControlChar(chars[i])
            THEN last.res = "ValueError"
            ELSE /\ last.res = "ok"
                 /\ out # << >>
                 /\ out[Len(out)] = escape(chars)

\* C20: when endElementNS has closed an element, the active namespace map
\* and the prefix counter equal what they were immediately before the
\* startElementNS that opened it, whatever was declared for it or inside it.
C20_ScopeUnwound ==
    (last.op = "endElementNS" /\ last.res = "ok" /\ last.pre.opened # << >>) =>
        LET e == last.pre.opened[Len(last.pre.opened)]
        IN  /\ curr_ns_map = e[3]
            /\ ns_counter = e[4]

\* C20 happens: the second element started was closed, and closing it changed
\* both the active map and the counter.
C20_DeclarationsDropped ==
    /\ last.op = "endElementNS"
    /\ last.res = "ok"
    /\ last.pre.opened # << >>
    /\ started = 2
    /\ curr_ns_map # last.pre.gen.curr_ns_map
    /\ ns_counter # last.pre.gen.ns_counter

\* The frames above the one __init__ put on the stack.
FrameDepth == Len(ns_map_stack) - 1

\* C21: the depth of the scope-frame stack equals the number of elements
\* started and not yet ended, in every state: 0 on a new generator, one more
\* per successful startElementNS, one less per endElementNS; an endElementNS
\* with no open element pops no frame.
C21_DepthIsNesting ==
    /\ FrameDepth = Len(opened)
    /\ (last.op = "endElementNS" /\ last.pre.opened = << >>) =>
           ns_map_stack = last.pre.gen.ns_map_stack

\* C22: after endElementNS the must-be-closed set is exactly the set of
\* prefixes the caller declared for that element with startPrefixMapping, and
\* endPrefixMapping succeeds for each of them, also for a prefix spelled like
\* one allocated automatically for an earlier element.
C22_MustCloseIsDeclared ==
    /\ (last.op = "endElementNS" /\ last.res = "ok" /\ last.pre.opened # << >>) =>
           ns_prefixes_floating_out = last.pre.opened[Len(last.pre.opened)][2]
    /\ (last.op = "endPrefixMapping" /\ last.arg[1] \in last.pre.unclosed) =>
           last.res = "ok"

\* C23: flush() leaves the active map, the frames, the pending declarations,
\* the must-be-closed set and the counter as they were; it finishes a
\* deferred start tag with ">", and only then, and flushes the sink.
C23_FlushKeepsDocument ==
    last.op = "flush" =>
        /\ last.res = "ok"
        /\ Scoping(Gen) = Scoping(last.pre.gen)
        /\ pending_start_element = Unset
        /\ out = IF last.pre.gen.pending_start_element # Unset
                 THEN <<">", Flush>>
                 ELSE <<Flush>>

\* C23 happens: flush was called inside an open element whose start tag was
\* deferred, with a declaration pending for the next element.
C23_FlushedDeferredTag ==
    /\ last.op = "flush"
    /\ last.pre.gen.pending_start_element # Unset
    /\ ns_prefixes_floating_in # EmptyDict
    /\ curr_ns_map # EmptyDict

\* The sink received the attribute name qn: " ", qn, "=", value.
AttrWritten(qn) ==
    \E i \in 1 .. Len(out) - 2 :
        out[i] = " " /\ out[i + 1] = qn /\ out[i + 2] = "="

\* C24: an attribute with a namespace URI is written with a non-empty prefix
\* that is bound to that URI in the scope of its element, also when the URI
\* is the prefixless namespace; an attribute without URI is written bare.
C24_AttributesQualified ==
    (last.op = "startElementNS" /\ last.res = "ok") =>
        \A i \in DOMAIN last.arg[2] :
            LET name == last.arg[2][i][1]
            IN  IF Truthy(name[1])
                THEN /\ name[1] \in DOMAIN curr_ns_map
                     /\ Truthy(curr_ns_map[name[1]])
                     /\ AttrWritten(curr_ns_map[name[1]] \o ":" \o name[2])
                ELSE AttrWritten(name[2])

\* ------------------------------------------------- properties: the processor

\* The last callback was startElementNS in state STARTED.
HeaderSeen == plast.op = "startElementNS" /\ plast.pre.state = STARTED

\* C6: in STARTED, the envelope element with version "1.0", a from, an id and
\* no to is accepted: version (1, 0), from, id and an absent to are stored,
\* the state is STREAM_HEADER_PROCESSED, the depth 1, and the driver has been
\* given nothing.
C6_HeaderAccepted ==
    (HeaderSeen /\ plast.arg = <<STREAM, GoodHeader>>)
    => /\ plast.res = "ok"
       /\ remote_version = << <<1, 0>> >>
       /\ remote_from = <<[localpart |-> "a", domain |-> "b", resource |-> None]>>
       /\ remote_id = <<"s1">>
       /\ remote_to = <<None>>
       /\ state = STREAM_HEADER_PROCESSED
       /\ depth = <<1>>
       /\ driver = plast.pre.driver
       /\ driver.events = << >>

\* The header in order was accepted.
C6_Accepted ==
    /\ HeaderSeen
    /\ plast.arg = <<STREAM, GoodHeader>>
    /\ plast.res = "ok"
    /\ state = STREAM_HEADER_PROCESSED

\* The version attribute is there and reads 1.0.
VersionSupported(attributes) ==
    /\ ATTR_VERSION \in DOMAIN attributes
    /\ attributes[ATTR_VERSION] = <<"1", ".", "0">>

\* The attribute is there and is no valid address.
Malformed(attributes, key) ==
    key \in DOMAIN attributes /\ attributes[key] # "a@b"

\* The outcome of a header as C7 states it.
OutcomeAsStated(name, attributes) ==
    IF name # STREAM THEN "StreamError:invalid-namespace"
    ELSE IF ~VersionSupported(attributes) THEN "StreamError:unsupported-version"
    ELSE IF ATTR_FROM \notin DOMAIN attributes THEN "StreamError:undefined-condition"
    ELSE IF ATTR_ID \notin DOMAIN attributes THEN "StreamError:undefined-condition"
    ELSE "ok"

\* The outcome of a header with the two address checks in their places.
OutcomeWithAddresses(name, attributes) ==
    IF name # STREAM THEN "StreamError:invalid-namespace"
    ELSE IF ~VersionSupported(attributes) THEN "StreamError:unsupported-version"
    ELSE IF Malformed(attributes, ATTR_TO) THEN "ValueError"
    ELSE IF ATTR_FROM \notin DOMAIN attributes THEN "StreamError:undefined-condition"
    ELSE IF Malformed(attributes, ATTR_FROM) THEN "ValueError"
    ELSE IF ATTR_ID \notin DOMAIN attributes THEN "StreamError:undefined-condition"
    ELSE "ok"

\* C7 as stated: in STARTED the outcome is decided by the name, then the
\* version, then the presence of from, then the presence of id.
C7_OrderAsStated ==
    HeaderSeen => plast.res = OutcomeAsStated(plast.arg[1], plast.arg[2])

\* C7, amended: in STARTED the outcome is decided by the name, then the
\* version (absent counts as 0.9), then the validity of a to that is present,
\* then the presence of from, then its validity, then the presence of id.
C7_OrderWithAddresses ==
    HeaderSeen => plast.res = OutcomeWithAddresses(plast.arg[1], plast.arg[2])

\* A header with a supported version and a malformed to was refused although
\* it lacks from as well.
C7_MalformedToFirst ==
    /\ HeaderSeen
    /\ plast.arg[1] = STREAM
    /\ VersionSupported(plast.arg[2])
    /\ Malformed(plast.arg[2], ATTR_TO)
    /\ ATTR_FROM \notin DOMAIN plast.arg[2]
    /\ plast.res = "ValueError"

\* C8: a header refused in STARTED leaves the state STARTED and the depth 0
\* and gives the driver nothing, and the header in order that follows a
\* refused one is accepted.
C8_RefusedHeaderKeepsState ==
    /\ Rejected # "none"
       => /\ state = STARTED
          /\ depth = <<0>>
          /\ driver = plast.pre.driver
          /\ driver.events = << >>
    /\ (/\ HeaderSeen
        /\ plast.rejected # "none"
        /\ plast.arg = <<STREAM, GoodHeader>>)
       => (plast.res = "ok" /\ state = STREAM_HEADER_PROCESSED /\ depth = <<1>>)

\* A header was refused for its version and the next one was accepted.
C8_AcceptedAfterRefusal ==
    /\ HeaderSeen
    /\ plast.rejected = "StreamError:unsupported-version"
    /\ plast.res = "ok"
    /\ state = STREAM_HEADER_PROCESSED

\* C9: a startElementNS that fails in STARTED with a stream error leaves
\* remote_version, remote_to, remote_from and remote_id as they were.
C9_RefusedHeaderKeepsFields ==
    (HeaderSeen /\ plast.res \in {"StreamError:invalid-namespace",
                                  "StreamError:unsupported-version",
                                  "StreamError:undefined-condition"})
    => /\ remote_version = plast.pre.remote_version
       /\ remote_to = plast.pre.remote_to
       /\ remote_from = plast.pre.remote_from
       /\ remote_id = plast.pre.remote_id

\* The last callback is one C10 says is refused.
IsRestricted ==
    \/ plast.op \in {"comment", "startDTD", "processingInstruction"}
    \/ /\ plast.op = "startEntity"
       /\ plast.arg[1] \notin {"amp", "lt", "gt", "apos", "quot"}

\* C10: in every state comment, startDTD, processingInstruction and startEntity
\* of a name that is not predefined fail with restricted-xml and leave the
\* processor as it was (state, depth, driver and what it was forwarded);
\* startEntity of a predefined name is accepted.
C10_RestrictedXml ==
    /\ IsRestricted
       => (plast.res = "StreamError:restricted-xml" /\ Proc = plast.pre)
    /\ (plast.op = "startEntity" /\ ~IsRestricted)
       => (plast.res = "ok" /\ Proc = plast.pre)

\* An entity that is not predefined was refused while stanza events had been
\* forwarded.
C10_RefusedMidStream ==
    /\ plast.op = "startEntity"
    /\ plast.arg = <<"nbsp">>
    /\ plast.res = "StreamError:restricted-xml"
    /\ state = STREAM_HEADER_PROCESSED
    /\ Len(driver.events) > 0

\* The last callback changed the state from a to b.
Moved(a, b) == plast.pre.state = a /\ state = b

\* C11: the state changes only from CLEAN to STARTED by startDocument, from
\* STARTED to STREAM_HEADER_PROCESSED by an accepted startElementNS, from
\* there to STREAM_FOOTER_PROCESSED by the endElementNS that brings the depth
\* to 0, and from there to CLEAN by endDocument, which releases the driver;
\* startDocument is then accepted again, sets the depth to 0 and creates a
\* driver that has been given nothing.
C11_StateCycle ==
    /\ state # plast.pre.state
       => /\ plast.res = "ok"
          /\ \/ plast.op = "startDocument" /\ Moved(CLEAN, STARTED)
             \/ plast.op = "startElementNS" /\ Moved(STARTED, STREAM_HEADER_PROCESSED)
             \/ /\ plast.op = "endElementNS"
                /\ Moved(STREAM_HEADER_PROCESSED, STREAM_FOOTER_PROCESSED)
                /\ depth = <<0>>
             \/ plast.op = "endDocument" /\ Moved(STREAM_FOOTER_PROCESSED, CLEAN)
    /\ (plast.op = "endElementNS" /\ plast.res = "ok" /\ depth = <<0>>)
       => state = STREAM_FOOTER_PROCESSED
    /\ (plast.op = "endDocument" /\ plast.pre.state = STREAM_FOOTER_PROCESSED)
       => (plast.res = "ok" /\ state = CLEAN /\ driver = None)
    /\ (plast.op = "startDocument" /\ plast.pre.state = CLEAN)
       => /\ plast.res = "ok"
          /\ state = STARTED
          /\ depth = <<0>>
          /\ driver = SAXDriver(stanza_parser)

\* A second stream was started after a complete cycle.
C11_Restarted ==
    /\ plast.op = "startDocument"
    /\ plast.res = "ok"
    /\ plast.pre.driver = None
    /\ plast.pre.depth = <<0>>
    /\ state = STARTED

RECURSIVE Balance(_)
\* The starts less the ends in a sequence of events.
Balance(events) ==
    IF events = << >> THEN 0
    ELSE Balance(Tail(events))
         + (CASE Head(events)[1] = "startElementNS" -> 1
              [] Head(events)[1] = "endElementNS" -> -1
              [] OTHER -> 0)

\* The last callback met the state STREAM_HEADER_PROCESSED.
InStream == plast.pre.state = STREAM_HEADER_PROCESSED

\* The last callback as an event.
Received ==
    CASE plast.op = "startElementNS" -> <<"startElementNS", plast.arg[1], plast.arg[2]>>
      [] plast.op = "characters" -> <<"characters", plast.arg[1]>>
      [] plast.op = "endElementNS" -> <<"endElementNS", plast.arg[1]>>

\* C12: after the header is accepted every startElementNS, characters and
\* endElementNS received is appended as it is to what the driver was given,
\* except the endElementNS that closes the envelope, which is not forwarded
\* and ends the stream; the envelope's start is not forwarded either, no other
\* callback gives the driver anything, and when the envelope is closed the
\* forwarded starts and ends are balanced.
C12_ForwardedAsReceived ==
    /\ (InStream /\ plast.op \in {"startElementNS", "characters"})
       => /\ plast.res = "ok"
          /\ driver.events = Append(plast.pre.driver.events, Received)
    /\ (InStream /\ plast.op = "endElementNS"
                 /\ Balance(plast.pre.driver.events) > 0)
       => /\ plast.res = "ok"
          /\ driver.events = Append(plast.pre.driver.events, Received)
          /\ state = STREAM_HEADER_PROCESSED
    /\ (InStream /\ plast.op = "endElementNS"
                 /\ Balance(plast.pre.driver.events) = 0)
       => /\ plast.res = "ok"
          /\ driver.events = plast.pre.driver.events
          /\ state = STREAM_FOOTER_PROCESSED
    /\ (InStream /\ plast.op \notin {"startElementNS", "characters", "endElementNS"})
       => driver = plast.pre.driver
    /\ HeaderSeen => driver.events = << >>
    /\ state = STREAM_HEADER_PROCESSED => Balance(driver.events) >= 0
    /\ state = STREAM_FOOTER_PROCESSED => Balance(driver.events) = 0

\* The envelope was closed after a stanza with text was forwarded whole.
C12_StanzaForwarded ==
    /\ state = STREAM_FOOTER_PROCESSED
    /\ plast.op = "endElementNS"
    /\ Len(driver.events) = 3
    /\ driver.events[1][1] = "startElementNS"
    /\ driver.events[2] = <<"characters", "text">>
    /\ driver.events[3][1] = "endElementNS"

\* The last callback met a state that does not permit it.
OutOfState ==
    \/ plast.op = "startDocument" /\ plast.pre.state # CLEAN
    \/ /\ plast.op = "startElementNS"
       /\ plast.pre.state \in {CLEAN, STREAM_FOOTER_PROCESSED}
    \/ /\ plast.op \in {"characters", "endElementNS"}
       /\ plast.pre.state # STREAM_HEADER_PROCESSED
    \/ plast.op = "endDocument" /\ plast.pre.state # STREAM_FOOTER_PROCESSED
    \/ plast.op = "stanza_parser" /\ plast.pre.state # CLEAN

\* C15: a callback made in a state that does not permit it fails with
\* RuntimeError and leaves the processor (state, depth, driver and what it was
\* given, stanza parser) as it was; assigning stanza_parser in CLEAN succeeds.
C15_OutOfStateRefused ==
    /\ OutOfState => (plast.res = "RuntimeError" /\ Proc = plast.pre)
    /\ (plast.op = "stanza_parser" /\ plast.pre.state = CLEAN)
       => (plast.res = "ok" /\ stanza_parser = plast.arg[1])
    /\ (plast.res = "RuntimeError" /\ plast.op \notin {"startElement", "endElement"})
       => OutOfState

\* Stanza events had been forwarded when stanza_parser was assigned and
\* refused.
C15_RefusedMidStream ==
    /\ plast.op = "stanza_parser"
    /\ plast.res = "RuntimeError"
    /\ state = STREAM_HEADER_PROCESSED
    /\ Len(driver.events) > 0

\* The processor holds a driver: _driver is neither unassigned nor None.
DriverHeld == ToString(driver) \notin {ToString(Unset), ToString(None)}

\* C25: once startDocument has been called, the depth is at least 1 exactly
\* in STREAM_HEADER_PROCESSED and is 0 in STARTED, STREAM_FOOTER_PROCESSED and
\* CLEAN; it is never negative; and a driver is held exactly while the state
\* is not CLEAN.
C25_DepthMatchesState ==
    depth # Unset =>
        /\ depth[1] >= 0
        /\ (depth[1] >= 1) <=> (state = STREAM_HEADER_PROCESSED)
        /\ state \in {STARTED, STREAM_FOOTER_PROCESSED, CLEAN} => depth[1] = 0
        /\ DriverHeld <=> (state # CLEAN)

\* C25 happens: the header was accepted and a stanza is open inside the
\* envelope, with the driver held.
C25_StanzaOpen ==
    /\ depth # Unset
    /\ depth[1] >= 2
    /\ state = STREAM_HEADER_PROCESSED
    /\ DriverHeld

\* ------------------------------------------------ properties: write_objects

\* C13: after AbortStream is thrown in at the yield the generator makes one
\* call on the writer, flush, which flushes the sink and writes nothing, and
\* finishes: no endElementNS, no endPrefixMapping, no endDocument.
C13_AbortFlushesOnly ==
    wo_run.op = "abort"
    => /\ wo_pc \in {"running", "finished"}
       /\ wo_pc = "running" => (wo_run.calls = << >> /\ wo_run.todo = << <<"flush">> >>)
       /\ wo_pc = "finished"
          => /\ wo_run.calls = << <<"flush", "ok">> >>
             /\ wo_run.sink = <<Flush>>
             /\ wo_run.exc = "ok"

\* A stream was aborted after an object had been written.
C13_Aborted ==
    /\ wo_run.op = "abort"
    /\ wo_pc = "finished"
    /\ wo_sent > 0
    /\ wo_run.sink = <<Flush>>

\* The close sequence, each call returning.
CloseSequence ==
    << <<"endElementNS", "ok">> >>
    \o [i \in DOMAIN wo_nsmap |-> <<"endPrefixMapping", "ok">>]
    \o << <<"endDocument", "ok">>, <<"flush", "ok">> >>

\* The calls of the last resumption end with the close sequence.
ClosedInFull ==
    /\ Len(wo_run.calls) >= Len(CloseSequence)
    /\ SubSeq(wo_run.calls, Len(wo_run.calls) - Len(CloseSequence) + 1,
              Len(wo_run.calls)) = CloseSequence

\* C14: when the generator has finished after close() or after an object's
\* serialization raised, its last calls were the whole close sequence, each
\* successful: endElementNS of the envelope, endPrefixMapping of every prefix
\* declared up front, endDocument and flush.
C14_ClosedInFull ==
    (wo_pc = "finished" /\ wo_run.op \in {"send", "close"}) => ClosedInFull

====
